---- MODULE Spec2Model ----
(***************************************************************************)
(* The two login flows of the repository, src/lunes_login.py ("lunes",     *)
(* with trace recording) and src/podl.py ("podl", with the submit gate),   *)
(* as one state machine: main(), login() step by step,                     *)
(* wait_for_turnstile_token() inlined where login() awaits it, and the     *)
(* page / site as an environment                                           *)
(* that may attach the token field, solve the challenge, navigate away or  *)
(* close the page between any two awaited steps.                           *)
(*                                                                         *)
(* Time is counted in milliseconds from the call of                        *)
(* wait_for_turnstile_token; only the awaits of that function advance it.  *)
(***************************************************************************)
EXTENDS Integers, Sequences, FiniteSets, TLC

VARIABLES
    flow,     \* which script runs: "lunes" or "podl"
    IS_CI,    \* module-level IS_CI
    EMAIL,    \* module-level EMAIL, from the environment
    PASSWORD, \* module-level PASSWORD, from the environment
    M,        \* main(): its position, its return code, the cookie file
    L,        \* the locals of login() and of wait_for_turnstile_token()
    E,        \* the page and the site, as the browser reports them
    G         \* what an observer of the run records (calls made, files written)

vars == <<flow, IS_CI, EMAIL, PASSWORD, M, L, E, G>>

(* ------------------------------ bounds --------------------------------- *)

\* Exceptions injected into awaited calls, per run.
MaxFaults == 2

\* Seconds between two observations of a pending wait_for_selector.
SelStepSecs == 30

(* ------------------------- program constants --------------------------- *)

LoginTimeoutArg == 60000
CiTimeoutCap == 180000
MsPerSec == 1000
PodlSelectorTimeout == 10000
PodlCiMaxWait == 30
InputValueTimeout == 30000
MinDelay == 1000
MaxDelay == 3000
GatePolls == 10
LunesErrorSelectors == 5
PodlErrorSelectors == 7

Flows == {"lunes", "podl"}
Tokens == {"t1", "t2"}
Emails == {"", "user@example.com"}
Passwords == {"", "secret"}
Delays == {MinDelay, MaxDelay}

Min(a, b) == IF a < b THEN a ELSE b

(* ------------------- wait_for_turnstile_token: helpers ----------------- *)

\* The timeout after the CI adjustment at the top of the function.
EffectiveTimeout(t) == IF IS_CI THEN Min(t * 2, CiTimeoutCap) ELSE t

\* The timeout handed to page.wait_for_selector.
SelectorTimeout == IF flow = "lunes" THEN L.timeout ELSE PodlSelectorTimeout

\* The number of iterations of the polling loop.
MaxWait == IF flow = "podl" /\ IS_CI THEN PodlCiMaxWait ELSE L.timeout \div MsPerSec

\* What the function's except clauses turn an exception of the body into.
ExceptOutcome(kind) == IF flow = "podl" /\ IS_CI THEN "none" ELSE "raise"

\* What exhausting the polling loop leads to.
ExhaustedOutcome == IF flow = "podl" /\ IS_CI THEN "none" ELSE ExceptOutcome("timeout")

\* Whether login() goes on to the submission after the wait ended this way.
ContinuesAfterWait(outcome) == outcome # "raise" \/ (flow = "podl" /\ IS_CI)

\* The step of login() that follows the challenge wait.
SubmitEntry == IF flow = "podl" THEN "gate" ELSE "click"

\* Python truthiness of what get_attribute('disabled') returned.
Truthy(attr) == attr \notin {"absent", ""}

SubmitAttrs == {"absent", "", "disabled"}

WaitPcs == {"w_count", "w_sel", "w_delay", "w_check", "w_read"}

(* ------------------------------ state ---------------------------------- *)

InitL == [pc |-> "launch",
          browser |-> FALSE, context |-> FALSE, page |-> FALSE,
          traceActive |-> FALSE,
          emailVal |-> 0, passVal |-> 0,
          timeout |-> 0, now |-> 0, i |-> 0, max_wait |-> 0, selector |-> 0,
          waitOutcome |-> "pending", waitValue |-> "",
          is_disabled |-> "absent",
          current_url |-> "unset", cookies |-> "unset",
          error_msg |-> <<"unset", 0>>, result |-> "pending"]

InitE == [pageClosed |-> FALSE, onLogin |-> FALSE,
          fieldAttached |-> FALSE, fieldValue |-> ""]

InitG == [faults |-> 0, closeCalls |-> 0, clicks |-> 0,
          artifacts |-> {}, traceStops |-> <<>>, hlog |-> <<>>,
          handler |-> FALSE, hShot |-> FALSE, hRaised |-> FALSE,
          expired |-> FALSE, reachedSubmit |-> FALSE, idleTimedOut |-> FALSE,
          everAttached |-> FALSE, attachedAtCall |-> FALSE,
          solvedAt |-> -1, navAt |-> -1,
          gateExhausted |-> FALSE, captureRaised |-> "", firstText |-> 0,
          closedInWait |-> FALSE, attachedInGrace |-> FALSE]

InitM == [pc |-> "start", code |-> -1, cookieFile |-> "none"]

Init ==
    /\ flow \in Flows
    /\ IS_CI \in BOOLEAN
    /\ EMAIL \in Emails
    /\ PASSWORD \in Passwords
    /\ M = InitM
    /\ L = InitL
    /\ E = InitE
    /\ G = InitG

(* ----------------------- how a step fails ------------------------------ *)

\* An awaited call on the page raises when the page is closed, or when an
\* exception is injected.
MayFail == E.pageClosed \/ G.faults < MaxFaults

Counted == [G EXCEPT !.faults = IF E.pageClosed THEN @ ELSE @ + 1]

\* An awaited call on the browser or the context raises only by injection.
MayInject == G.faults < MaxFaults

Injected == [G EXCEPT !.faults = @ + 1]

(* ------------------------------- main() -------------------------------- *)

\* A check of the configuration that looks at the email only.
ConfigMissingEmailOnly == EMAIL = ""

\* "not EMAIL or not PASSWORD"
ConfigMissing == EMAIL = "" \/ PASSWORD = ""

\* What login() has returned: the cookie list as read, or None.
LoginReturn == IF L.result = "cookies" THEN L.cookies ELSE "None"

\* "if cookies:" - None and the empty list are both false.
CookiesTruthy(value) == value \notin {"None", "empty"}

\* if not EMAIL or not PASSWORD: ... return 1; otherwise asyncio.run(login())
MainCheck ==
    /\ M.pc = "start"
    /\ M' = IF ConfigMissing THEN [M EXCEPT !.pc = "exit", !.code = 1]
                             ELSE [M EXCEPT !.pc = "login"]
    /\ UNCHANGED <<flow, IS_CI, EMAIL, PASSWORD, L, E, G>>

\* cookies = asyncio.run(login()); if cookies: ... else: ... return 1
MainBranch ==
    /\ M.pc = "login" /\ L.pc = "done"
    /\ M' = IF CookiesTruthy(LoginReturn) THEN [M EXCEPT !.pc = "save"]
                                          ELSE [M EXCEPT !.pc = "exit", !.code = 1]
    /\ UNCHANGED <<flow, IS_CI, EMAIL, PASSWORD, L, E, G>>

\* with open('cookies.json', 'w') as f: json.dump(cookies, f); return 0.
\* open() or json.dump() raising leaves main() through the exception: no
\* file, or a file that is not the whole cookie list.
MainSave ==
    /\ M.pc = "save"
    /\ \/ /\ M' = [M EXCEPT !.pc = "exit", !.code = 0, !.cookieFile = "written"]
          /\ G' = G
       \/ /\ MayInject
          /\ \E f \in {"none", "partial"} :
                M' = [M EXCEPT !.pc = "raised", !.cookieFile = f]
          /\ G' = Injected
    /\ UNCHANGED <<flow, IS_CI, EMAIL, PASSWORD, L, E>>

(* ------------------- login(): from launch to the form ------------------ *)

\* p.chromium.launch(...), once main() has called login()
Launch ==
    /\ M.pc = "login"
    /\ L.pc = "launch"
    /\ \/ /\ L' = [L EXCEPT !.pc = "new_context", !.browser = TRUE]
          /\ G' = G
       \/ /\ MayInject
          /\ L' = [L EXCEPT !.pc = "except"]
          /\ G' = Injected
    /\ UNCHANGED <<flow, IS_CI, EMAIL, PASSWORD, M, E>>

\* browser.new_context(...)
NewContext ==
    /\ L.pc = "new_context"
    /\ \/ /\ L' = [L EXCEPT !.pc = IF flow = "lunes" THEN "tracing_start" ELSE "new_page",
                            !.context = TRUE]
          /\ G' = G
       \/ /\ MayInject
          /\ L' = [L EXCEPT !.pc = "except"]
          /\ G' = Injected
    /\ UNCHANGED <<flow, IS_CI, EMAIL, PASSWORD, M, E>>

\* context.tracing.start(...), in the lunes flow only
TracingStart ==
    /\ L.pc = "tracing_start"
    /\ \/ /\ L' = [L EXCEPT !.pc = "new_page", !.traceActive = TRUE]
          /\ G' = G
       \/ /\ MayInject
          /\ L' = [L EXCEPT !.pc = "except"]
          /\ G' = Injected
    /\ UNCHANGED <<flow, IS_CI, EMAIL, PASSWORD, M, E>>

\* context.new_page()
NewPage ==
    /\ L.pc = "new_page"
    /\ \/ /\ L' = [L EXCEPT !.pc = "goto", !.page = TRUE]
          /\ G' = G
       \/ /\ MayInject
          /\ L' = [L EXCEPT !.pc = "except"]
          /\ G' = Injected
    /\ UNCHANGED <<flow, IS_CI, EMAIL, PASSWORD, M, E>>

\* page.goto(login_url, wait_until="domcontentloaded"); the login page may or
\* may not carry the token field when it has loaded.
Goto ==
    /\ L.pc = "goto"
    /\ \/ /\ ~E.pageClosed
          /\ \E a \in BOOLEAN :
                /\ E' = [E EXCEPT !.onLogin = TRUE, !.fieldAttached = a]
                /\ G' = [G EXCEPT !.everAttached = a]
          /\ L' = [L EXCEPT !.pc = "fill"]
       \/ /\ MayFail
          /\ L' = [L EXCEPT !.pc = "except"]
          /\ G' = Counted
          /\ E' = E
    /\ UNCHANGED <<flow, IS_CI, EMAIL, PASSWORD, M>>

\* The two fields: wait_for(visible), click, fill. A fill may not be reflected
\* in the field (0 copies of the credential) or be reflected (1 copy).
FillForm ==
    /\ L.pc = "fill"
    /\ \/ /\ ~E.pageClosed
          /\ \E e \in {0, 1}, p \in {0, 1} :
                L' = [L EXCEPT !.pc = "verify", !.emailVal = e, !.passVal = p]
          /\ G' = G
       \/ /\ ~E.pageClosed           \* a field never becomes visible: TimeoutError
          /\ L' = [L EXCEPT !.pc = "except"]
          /\ G' = G
       \/ /\ MayFail
          /\ L' = [L EXCEPT !.pc = "except"]
          /\ G' = Counted
    /\ UNCHANGED <<flow, IS_CI, EMAIL, PASSWORD, M, E>>

\* Read both fields back; if either is empty, click and type both credentials.
VerifyForm ==
    /\ L.pc = "verify"
    /\ \/ /\ ~E.pageClosed
          /\ L.emailVal # 0 /\ L.passVal # 0
          /\ L' = [L EXCEPT !.pc = "wait"]
          /\ G' = G
       \/ /\ ~E.pageClosed
          /\ L.emailVal = 0 \/ L.passVal = 0
          /\ L' = [L EXCEPT !.pc = "wait",
                            !.emailVal = @ + 1, !.passVal = @ + 1]
          /\ G' = G
       \/ /\ MayFail
          /\ L' = [L EXCEPT !.pc = "except"]
          /\ G' = Counted
    /\ UNCHANGED <<flow, IS_CI, EMAIL, PASSWORD, M, E>>

(* --------------------- wait_for_turnstile_token ------------------------ *)

Ret(outcome, value) ==
    [L EXCEPT !.pc = "w_ret", !.waitOutcome = outcome, !.waitValue = value]

\* login() calls wait_for_turnstile_token(page, timeout=60000); the function
\* adjusts the timeout for CI. The form fields are not read again from here on.
WaitCall ==
    /\ L.pc = "wait"
    /\ L' = [L EXCEPT !.pc = IF flow = "podl" THEN "w_count" ELSE "w_sel",
                      !.timeout = EffectiveTimeout(LoginTimeoutArg),
                      !.now = 0, !.i = 0,
                      !.emailVal = 0, !.passVal = 0,
                      !.waitOutcome = "pending", !.waitValue = ""]
    /\ G' = [G EXCEPT !.attachedAtCall = E.fieldAttached,
                      !.solvedAt = IF E.fieldValue # "" THEN 0 ELSE -1,
                      !.navAt = -1, !.attachedInGrace = FALSE]
    /\ UNCHANGED <<flow, IS_CI, EMAIL, PASSWORD, M, E>>

\* podl only: page.locator(...).count() and the early return on 0.
WaitCount ==
    /\ L.pc = "w_count"
    /\ \/ /\ ~E.pageClosed /\ ~E.fieldAttached
          /\ L' = Ret("none", "")
          /\ G' = G
       \/ /\ ~E.pageClosed /\ E.fieldAttached
          /\ L' = [L EXCEPT !.pc = "w_sel"]
          /\ G' = G
       \/ /\ MayFail
          /\ L' = Ret(ExceptOutcome("error"), "")
          /\ G' = Counted
    /\ UNCHANGED <<flow, IS_CI, EMAIL, PASSWORD, M, E>>

\* page.wait_for_selector(..., state="attached", timeout=...)
WaitSelector ==
    /\ L.pc = "w_sel"
    /\ \/ /\ ~E.pageClosed /\ E.fieldAttached
          /\ L' = [L EXCEPT !.pc = "w_delay"]
          /\ G' = G
       \/ /\ ~E.pageClosed /\ ~E.fieldAttached
          /\ L.now + SelStepSecs * MsPerSec < SelectorTimeout
          /\ L' = [L EXCEPT !.now = @ + SelStepSecs * MsPerSec]
          /\ G' = G
       \/ /\ ~E.pageClosed /\ ~E.fieldAttached
          /\ L.now + SelStepSecs * MsPerSec >= SelectorTimeout
          /\ L' = [Ret(ExceptOutcome("timeout"), "") EXCEPT !.now = SelectorTimeout]
          /\ G' = G
       \/ /\ MayFail
          /\ L' = Ret(ExceptOutcome("error"), "")
          /\ G' = Counted
    /\ UNCHANGED <<flow, IS_CI, EMAIL, PASSWORD, M, E>>

\* asyncio.sleep(random.uniform(1, 3)), then the loop bound is fixed.
WaitDelay ==
    /\ L.pc = "w_delay"
    /\ \E d \in Delays :
          L' = [L EXCEPT !.pc = "w_check", !.now = @ + d, !.i = 0,
                         !.max_wait = MaxWait]
    /\ UNCHANGED <<flow, IS_CI, EMAIL, PASSWORD, M, E, G>>

\* Top of one loop iteration: the loop bound, page.is_closed(), page.url.
PollCheck ==
    /\ L.pc = "w_check"
    /\ \/ /\ L.i >= L.max_wait
          /\ L' = Ret(ExhaustedOutcome, "")
          /\ G' = [G EXCEPT !.expired = TRUE]
       \/ /\ L.i < L.max_wait /\ E.pageClosed
          /\ L' = Ret("none", "")
          /\ G' = G
       \/ /\ L.i < L.max_wait /\ ~E.pageClosed /\ ~E.onLogin
          /\ L' = Ret("none", "")
          /\ G' = G
       \/ /\ L.i < L.max_wait /\ ~E.pageClosed /\ E.onLogin
          /\ L' = [L EXCEPT !.pc = "w_read"]
          /\ G' = G
    /\ UNCHANGED <<flow, IS_CI, EMAIL, PASSWORD, M, E>>

\* page.input_value(...) and, on an empty value, asyncio.sleep(1).
PollRead ==
    /\ L.pc = "w_read"
    /\ \/ /\ ~E.pageClosed /\ E.fieldAttached /\ E.fieldValue # ""
          /\ L' = Ret("token", E.fieldValue)
          /\ G' = G
       \/ /\ ~E.pageClosed /\ E.fieldAttached /\ E.fieldValue = ""
          /\ L' = [L EXCEPT !.pc = "w_check", !.now = @ + MsPerSec, !.i = @ + 1]
          /\ G' = G
       \/ /\ ~E.pageClosed /\ ~E.fieldAttached
          /\ L' = [Ret(ExceptOutcome("timeout"), "") EXCEPT !.now = @ + InputValueTimeout]
          /\ G' = G
       \/ /\ MayFail
          /\ L' = Ret(ExceptOutcome("error"), "")
          /\ G' = Counted
    /\ UNCHANGED <<flow, IS_CI, EMAIL, PASSWORD, M, E>>

\* Back in login(): the token is printed, or the exception handled.
AfterWait ==
    /\ L.pc = "w_ret"
    /\ \/ /\ ContinuesAfterWait(L.waitOutcome)
          /\ L' = [L EXCEPT !.pc = SubmitEntry,
                            !.timeout = 0, !.now = 0, !.i = 0, !.max_wait = 0,
                            !.waitOutcome = "pending", !.waitValue = ""]
          /\ G' = [G EXCEPT !.reachedSubmit = TRUE, !.attachedAtCall = FALSE,
                            !.solvedAt = -1, !.navAt = -1,
                            !.attachedInGrace = FALSE]
       \/ /\ ~ContinuesAfterWait(L.waitOutcome)
          /\ L' = [L EXCEPT !.pc = "except",
                            !.timeout = 0, !.now = 0, !.i = 0, !.max_wait = 0,
                            !.waitOutcome = "pending", !.waitValue = ""]
          /\ G' = [G EXCEPT !.attachedAtCall = FALSE, !.solvedAt = -1, !.navAt = -1,
                            !.attachedInGrace = FALSE]
    /\ UNCHANGED <<flow, IS_CI, EMAIL, PASSWORD, M, E>>

(* ------------------------ the page and the site ------------------------ *)

PageLive == L.page /\ ~E.pageClosed /\ L.pc \notin {"goto", "done"}

InWait == L.pc \in WaitPcs

\* The widget's script attaches the hidden input.
Attach ==
    /\ PageLive /\ E.onLogin /\ ~E.fieldAttached
    /\ E' = [E EXCEPT !.fieldAttached = TRUE]
    /\ G' = [G EXCEPT !.everAttached = TRUE,
                      !.attachedInGrace =
                          @ \/ ((InWait \/ L.pc = "w_ret") /\ L.now < SelectorTimeout)]
    /\ UNCHANGED <<flow, IS_CI, EMAIL, PASSWORD, M, L>>

\* The challenge is solved: the widget writes the token into the input.
Solve ==
    /\ PageLive /\ E.fieldAttached /\ E.fieldValue = ""
    /\ \E t \in Tokens : E' = [E EXCEPT !.fieldValue = t]
    /\ G' = [G EXCEPT !.solvedAt = IF InWait \/ L.pc = "w_ret" THEN L.now ELSE @]
    /\ UNCHANGED <<flow, IS_CI, EMAIL, PASSWORD, M, L>>

\* The page leaves the login route; the page it lands on may carry a token
\* field of its own.
Navigate ==
    /\ PageLive /\ E.onLogin
    /\ \E a \in BOOLEAN :
          /\ E' = [E EXCEPT !.onLogin = FALSE, !.fieldAttached = a, !.fieldValue = ""]
          /\ G' = [G EXCEPT !.navAt = IF InWait THEN L.now ELSE @,
                            !.everAttached = @ \/ a]
    /\ UNCHANGED <<flow, IS_CI, EMAIL, PASSWORD, M, L>>

\* The page is closed (by the operator, a crash, the site).
ClosePage ==
    /\ PageLive
    /\ E' = [E EXCEPT !.pageClosed = TRUE]
    /\ G' = [G EXCEPT !.closedInWait = @ \/ InWait]
    /\ UNCHANGED <<flow, IS_CI, EMAIL, PASSWORD, M, L>>

(* ----------------------- login(): the submit gate ----------------------- *)

\* podl only: is_disabled = submit_button.get_attribute('disabled'). Whatever
\* this block raises is caught and the flow goes on to the click.
GateRead ==
    /\ L.pc = "gate"
    /\ \/ /\ ~E.pageClosed
          /\ \E a \in SubmitAttrs :
                L' = [L EXCEPT !.is_disabled = a, !.i = 0,
                               !.pc = IF Truthy(a) /\ IS_CI THEN "g_shot" ELSE "click"]
          /\ G' = G
       \/ /\ MayFail
          /\ L' = [L EXCEPT !.pc = "click"]
          /\ G' = Counted
    /\ UNCHANGED <<flow, IS_CI, EMAIL, PASSWORD, M, E>>

\* page.screenshot(path="turnstile_blocked.png")
GateShot ==
    /\ L.pc = "g_shot"
    /\ \/ /\ ~E.pageClosed
          /\ L' = [L EXCEPT !.pc = "g_poll", !.i = 0]
          /\ G' = [G EXCEPT !.artifacts = @ \cup {"turnstile_blocked.png"}]
       \/ /\ MayFail
          /\ L' = [L EXCEPT !.pc = "click"]
          /\ G' = Counted
    /\ UNCHANGED <<flow, IS_CI, EMAIL, PASSWORD, M, E>>

\* One iteration of "for i in range(10)": sleep, read the attribute again.
GatePoll ==
    /\ L.pc = "g_poll"
    /\ \/ /\ L.i < GatePolls /\ ~E.pageClosed
          /\ \E a \in SubmitAttrs :
                L' = [L EXCEPT !.is_disabled = a,
                               !.i = IF Truthy(a) THEN @ + 1 ELSE 0,
                               !.pc = IF Truthy(a) THEN "g_poll" ELSE "click"]
          /\ G' = G
       \/ /\ L.i < GatePolls /\ MayFail
          /\ L' = [L EXCEPT !.pc = "click", !.i = 0]
          /\ G' = Counted
       \/ /\ L.i >= GatePolls
          /\ L' = [L EXCEPT !.pc = "g_close", !.i = 0]
          /\ G' = [G EXCEPT !.gateExhausted = TRUE]
    /\ UNCHANGED <<flow, IS_CI, EMAIL, PASSWORD, M, E>>

\* The loop's else branch: browser.close(); return None - inside the same try.
GateClose ==
    /\ L.pc = "g_close"
    /\ \/ /\ L' = [L EXCEPT !.pc = "done", !.result = "None"]
          /\ G' = [G EXCEPT !.closeCalls = @ + 1]
          /\ E' = [E EXCEPT !.pageClosed = TRUE]
       \/ /\ MayInject
          /\ L' = [L EXCEPT !.pc = "click"]
          /\ G' = [Injected EXCEPT !.closeCalls = @ + 1]
          /\ E' = E
    /\ UNCHANGED <<flow, IS_CI, EMAIL, PASSWORD, M>>

(* --------------------- login(): click and classify --------------------- *)

\* page.url, as far as the classification reads it: an address with the
\* "/login" segment or one without.
PageUrl == IF E.onLogin THEN "site/login" ELSE "site/home"

\* "/login" in current_url
ContainsLogin(url) == url = "site/login"

\* submit_button.click()
Click ==
    /\ L.pc = "click"
    /\ \/ /\ ~E.pageClosed
          /\ L' = [L EXCEPT !.pc = "netidle"]
          /\ G' = [G EXCEPT !.clicks = @ + 1]
       \/ /\ MayFail
          /\ L' = [L EXCEPT !.pc = IF flow = "podl" THEN "click_js" ELSE "except"]
          /\ G' = [Counted EXCEPT !.clicks = @ + 1]
    /\ UNCHANGED <<flow, IS_CI, EMAIL, PASSWORD, M, E>>

\* podl only: submit_button.evaluate('el => el.click()')
ClickJs ==
    /\ L.pc = "click_js"
    /\ \/ /\ ~E.pageClosed
          /\ L' = [L EXCEPT !.pc = "netidle"]
          /\ G' = [G EXCEPT !.clicks = @ + 1]
       \/ /\ MayFail
          /\ L' = [L EXCEPT !.pc = "except"]
          /\ G' = [Counted EXCEPT !.clicks = @ + 1]
    /\ UNCHANGED <<flow, IS_CI, EMAIL, PASSWORD, M, E>>

\* A wait for network idleness whose timeout is not caught.
NetIdleTimeoutFatal ==
    /\ L.pc = "netidle"
    /\ \/ /\ ~E.pageClosed
          /\ L' = [L EXCEPT !.pc = "urlcheck"]
          /\ G' = G
       \/ /\ ~E.pageClosed
          /\ L' = [L EXCEPT !.pc = "except"]
          /\ G' = [G EXCEPT !.idleTimedOut = TRUE]
       \/ /\ MayFail
          /\ L' = [L EXCEPT !.pc = "except"]
          /\ G' = Counted
    /\ UNCHANGED <<flow, IS_CI, EMAIL, PASSWORD, M, E>>

\* page.wait_for_load_state("networkidle", timeout=15000); a TimeoutError is
\* caught, any other exception is not.
NetIdle ==
    /\ L.pc = "netidle"
    /\ \/ /\ ~E.pageClosed
          /\ L' = [L EXCEPT !.pc = "urlcheck"]
          /\ G' = G
       \/ /\ ~E.pageClosed
          /\ L' = [L EXCEPT !.pc = "urlcheck"]
          /\ G' = [G EXCEPT !.idleTimedOut = TRUE]
       \/ /\ MayFail
          /\ L' = [L EXCEPT !.pc = "except"]
          /\ G' = Counted
    /\ UNCHANGED <<flow, IS_CI, EMAIL, PASSWORD, M, E>>

\* asyncio.sleep(2); current_url = page.url; if "/login" not in current_url
UrlCheck ==
    /\ L.pc = "urlcheck"
    /\ L' = [L EXCEPT !.current_url = PageUrl,
                      !.pc = IF ~ContainsLogin(PageUrl) THEN "s_cookies" ELSE "f_shot"]
    /\ UNCHANGED <<flow, IS_CI, EMAIL, PASSWORD, M, E, G>>

(* ------------------------ login(): success path ------------------------ *)

\* cookies = context.cookies()
SCookies ==
    /\ L.pc = "s_cookies"
    /\ \/ \E c \in {"empty", "some"} :
             /\ L' = [L EXCEPT !.pc = "s_shot", !.cookies = c]
             /\ G' = G
       \/ /\ MayInject
          /\ L' = [L EXCEPT !.pc = "except"]
          /\ G' = [Injected EXCEPT !.captureRaised = "cookies"]
    /\ UNCHANGED <<flow, IS_CI, EMAIL, PASSWORD, M, E>>

\* page.screenshot(path="login_success.png")
SShot ==
    /\ L.pc = "s_shot"
    /\ \/ /\ ~E.pageClosed
          /\ L' = [L EXCEPT !.pc = "s_card"]
          /\ G' = [G EXCEPT !.artifacts = @ \cup {"login_success.png"}]
       \/ /\ MayFail
          /\ L' = [L EXCEPT !.pc = "except"]
          /\ G' = [Counted EXCEPT !.captureRaised = "success_shot"]
    /\ UNCHANGED <<flow, IS_CI, EMAIL, PASSWORD, M, E>>

AfterCard == IF flow = "lunes" THEN "s_trace" ELSE "s_close"

\* A server-card step whose failure is not caught.
SCardRaising ==
    /\ L.pc = "s_card"
    /\ \/ /\ IS_CI
          /\ L' = [L EXCEPT !.pc = AfterCard]
          /\ G' = G
       \/ /\ ~IS_CI /\ ~E.pageClosed
          /\ L' = [L EXCEPT !.pc = AfterCard]
          /\ G' = [G EXCEPT !.artifacts = @ \cup {"server_detail.png"}]
       \/ /\ ~IS_CI
          /\ L' = [L EXCEPT !.pc = "except"]
          /\ G' = G
    /\ UNCHANGED <<flow, IS_CI, EMAIL, PASSWORD, M, E>>

\* The server-card step, outside CI only; whatever it raises is caught.
SCard ==
    /\ L.pc = "s_card"
    /\ \/ /\ IS_CI
          /\ L' = [L EXCEPT !.pc = AfterCard]
          /\ G' = G
       \/ /\ ~IS_CI /\ ~E.pageClosed
          /\ L' = [L EXCEPT !.pc = AfterCard]
          /\ G' = [G EXCEPT !.artifacts = @ \cup {"server_detail.png"}]
       \/ /\ ~IS_CI
          /\ L' = [L EXCEPT !.pc = AfterCard]
          /\ G' = G
    /\ UNCHANGED <<flow, IS_CI, EMAIL, PASSWORD, M, E>>

\* lunes only: context.tracing.stop(path=f"success_{trace_name}")
STrace ==
    /\ L.pc = "s_trace"
    /\ \/ /\ L.traceActive
          /\ L' = [L EXCEPT !.pc = "s_close", !.traceActive = FALSE]
          /\ G' = [G EXCEPT !.traceStops = Append(@, "success"),
                            !.artifacts = @ \cup {"success_trace.zip"}]
       \/ /\ MayInject
          /\ L' = [L EXCEPT !.pc = "except"]
          /\ G' = [Injected EXCEPT !.captureRaised = "success_trace"]
    /\ UNCHANGED <<flow, IS_CI, EMAIL, PASSWORD, M, E>>

\* browser.close(); return cookies
SClose ==
    /\ L.pc = "s_close"
    /\ \/ /\ L' = [L EXCEPT !.pc = "done", !.result = "cookies"]
          /\ G' = [G EXCEPT !.closeCalls = @ + 1]
          /\ E' = [E EXCEPT !.pageClosed = TRUE]
       \/ /\ MayInject
          /\ L' = [L EXCEPT !.pc = "except"]
          /\ G' = [Injected EXCEPT !.closeCalls = @ + 1]
          /\ E' = E
    /\ UNCHANGED <<flow, IS_CI, EMAIL, PASSWORD, M>>

(* ------------------------ login(): failure path ------------------------ *)

\* page.screenshot(path="login_failed.png")
FShot ==
    /\ L.pc = "f_shot"
    /\ \/ /\ ~E.pageClosed
          /\ L' = [L EXCEPT !.pc = "f_err"]
          /\ G' = [G EXCEPT !.artifacts = @ \cup {"login_failed.png"}]
       \/ /\ MayFail
          /\ L' = [L EXCEPT !.pc = "except"]
          /\ G' = [Counted EXCEPT !.captureRaised = "failed_shot"]
    /\ UNCHANGED <<flow, IS_CI, EMAIL, PASSWORD, M, E>>

\* len(error_selectors)
NumSelectors == IF flow = "lunes" THEN LunesErrorSelectors ELSE PodlErrorSelectors

\* What the page holds for one selector: no match (count() = 0), a first
\* match whose text is None, empty or blank, or a first match with text.
Matches == {"absent", "blank", "text"}

\* Whether the loop over error_selectors stops at a selector: lunes prints
\* the text of the first selector that matches, whatever it is, and breaks;
\* podl breaks only on a text that is not blank.
Breaks(m) == IF flow = "lunes" THEN m # "absent" ELSE m = "text"

\* Where the page's first element with text can be once selector k has been
\* read as m and the loop has stopped there: at k, or, after a blank one,
\* nowhere or at any later selector.
FirstTextFrom(m, k) == IF m = "text" THEN {k} ELSE {0} \cup (k + 1)..NumSelectors

AfterProbe == IF flow = "lunes" THEN "f_trace"
              ELSE IF IS_CI THEN "f_dump" ELSE "f_close"

\* One iteration of "for selector in error_selectors", or the end of the
\* list. error_msg is the reason printed: the text of selector k is
\* identified by k. The observer notes the first selector of the page that
\* carried text. Whatever the probe raises is caught: then no reason is
\* printed, only that the message could not be read.
FErr ==
    /\ L.pc = "f_err"
    /\ \/ /\ L.selector >= NumSelectors
          /\ L' = [L EXCEPT !.pc = AfterProbe, !.selector = 0,
                            !.error_msg = <<"unclassified", 0>>]
          /\ G' = G
       \/ /\ L.selector < NumSelectors /\ ~E.pageClosed
          /\ \E m \in Matches :
                /\ ~Breaks(m)
                /\ L' = [L EXCEPT !.selector = @ + 1]
                /\ G' = G
       \/ /\ L.selector < NumSelectors /\ ~E.pageClosed
          /\ \E m \in Matches :
                /\ Breaks(m)
                /\ L' = [L EXCEPT !.pc = AfterProbe, !.selector = 0,
                                  !.error_msg = <<m, L.selector + 1>>]
                /\ \E j \in FirstTextFrom(m, L.selector + 1) :
                      G' = [G EXCEPT !.firstText = j]
       \/ /\ L.selector < NumSelectors /\ MayFail
          /\ L' = [L EXCEPT !.pc = AfterProbe, !.selector = 0,
                            !.error_msg = <<"raised", 0>>]
          /\ G' = Counted
    /\ UNCHANGED <<flow, IS_CI, EMAIL, PASSWORD, M, E>>

\* error_msg is not read after the probe, and the page's error elements are
\* not looked at again.
PastProbe(l) == [l EXCEPT !.error_msg = <<"unset", 0>>]

Unobserved(g) == [g EXCEPT !.firstText = 0]

\* lunes only: context.tracing.stop(path=f"failed_{trace_name}")
FTrace ==
    /\ L.pc = "f_trace"
    /\ \/ /\ L.traceActive
          /\ L' = [PastProbe(L) EXCEPT !.pc = "f_close", !.traceActive = FALSE]
          /\ G' = [Unobserved(G) EXCEPT !.traceStops = Append(@, "failed"),
                            !.artifacts = @ \cup {"failed_trace.zip"}]
       \/ /\ MayInject
          /\ L' = [PastProbe(L) EXCEPT !.pc = "except"]
          /\ G' = [Unobserved(Injected) EXCEPT !.captureRaised = "failed_trace"]
    /\ UNCHANGED <<flow, IS_CI, EMAIL, PASSWORD, M, E>>

\* podl in CI only: page.content() written to page_content.html; whatever it
\* raises is caught.
FDump ==
    /\ L.pc = "f_dump"
    /\ \/ /\ ~E.pageClosed
          /\ L' = [PastProbe(L) EXCEPT !.pc = "f_close"]
          /\ G' = [Unobserved(G) EXCEPT !.artifacts = @ \cup {"page_content.html"}]
       \/ /\ MayFail
          /\ L' = [PastProbe(L) EXCEPT !.pc = "f_close"]
          /\ G' = Unobserved(Counted)
    /\ UNCHANGED <<flow, IS_CI, EMAIL, PASSWORD, M, E>>

\* browser.close(); return None
FClose ==
    /\ L.pc = "f_close"
    /\ \/ /\ L' = [PastProbe(L) EXCEPT !.pc = "done", !.result = "None"]
          /\ G' = [Unobserved(G) EXCEPT !.closeCalls = @ + 1]
          /\ E' = [E EXCEPT !.pageClosed = TRUE]
       \/ /\ MayInject
          /\ L' = [PastProbe(L) EXCEPT !.pc = "except"]
          /\ G' = [Unobserved(Injected) EXCEPT !.closeCalls = @ + 1]
          /\ E' = E
    /\ UNCHANGED <<flow, IS_CI, EMAIL, PASSWORD, M>>

(* --------------------- login(): except Exception ----------------------- *)

\* The handler's steps share one try: the first of them that raises ends the
\* cleanup ("except Exception as cleanup_error").
AfterErrorShot == IF flow = "lunes" THEN "h_trace" ELSE "h_close"

\* if page and not page.is_closed(): page.screenshot(path="error.png")
HShot ==
    /\ L.pc = "except"
    /\ \/ /\ L.page /\ ~E.pageClosed
          /\ L' = [L EXCEPT !.pc = IF flow = "podl" /\ IS_CI THEN "h_dump"
                                   ELSE AfterErrorShot]
          /\ G' = [G EXCEPT !.handler = TRUE, !.hShot = TRUE,
                            !.hlog = Append(@, "screenshot"),
                            !.artifacts = @ \cup {"error.png"}]
       \/ /\ L.page /\ ~E.pageClosed /\ MayInject
          /\ L' = [L EXCEPT !.pc = "h_ret"]
          /\ G' = [Injected EXCEPT !.handler = TRUE, !.hShot = TRUE,
                                   !.hRaised = TRUE,
                                   !.hlog = Append(@, "screenshot")]
       \/ /\ ~(L.page /\ ~E.pageClosed)
          /\ L' = [L EXCEPT !.pc = AfterErrorShot]
          /\ G' = [G EXCEPT !.handler = TRUE]
    /\ UNCHANGED <<flow, IS_CI, EMAIL, PASSWORD, M, E>>

\* podl in CI only: page.content() written to error_page.html, under a bare
\* except of its own.
HDump ==
    /\ L.pc = "h_dump"
    /\ \/ /\ ~E.pageClosed
          /\ L' = [L EXCEPT !.pc = "h_close"]
          /\ G' = [G EXCEPT !.artifacts = @ \cup {"error_page.html"}]
       \/ /\ MayFail
          /\ L' = [L EXCEPT !.pc = "h_close"]
          /\ G' = Counted
    /\ UNCHANGED <<flow, IS_CI, EMAIL, PASSWORD, M, E>>

\* lunes only: if context: context.tracing.stop(path=f"error_{trace_name}").
\* Stopping a trace that is not being recorded (never started, or stopped
\* already) either raises or does nothing, depending on the browser engine.
HTrace ==
    /\ L.pc = "h_trace"
    /\ \/ /\ ~L.context
          /\ L' = [L EXCEPT !.pc = "h_close"]
          /\ G' = G
       \/ /\ L.context /\ L.traceActive
          /\ L' = [L EXCEPT !.pc = "h_close", !.traceActive = FALSE]
          /\ G' = [G EXCEPT !.hlog = Append(@, "trace"),
                            !.traceStops = Append(@, "error"),
                            !.artifacts = @ \cup {"error_trace.zip"}]
       \/ /\ L.context /\ ~L.traceActive
          /\ L' = [L EXCEPT !.pc = "h_ret"]
          /\ G' = [G EXCEPT !.hlog = Append(@, "trace"), !.hRaised = TRUE]
       \/ /\ L.context /\ ~L.traceActive
          /\ L' = [L EXCEPT !.pc = "h_close"]
          /\ G' = [G EXCEPT !.hlog = Append(@, "trace")]
       \/ /\ L.context /\ L.traceActive /\ MayInject
          /\ L' = [L EXCEPT !.pc = "h_ret"]
          /\ G' = [Injected EXCEPT !.hlog = Append(@, "trace"), !.hRaised = TRUE]
    /\ UNCHANGED <<flow, IS_CI, EMAIL, PASSWORD, M, E>>

\* if browser: browser.close()
HClose ==
    /\ L.pc = "h_close"
    /\ \/ /\ ~L.browser
          /\ L' = [L EXCEPT !.pc = "h_ret"]
          /\ G' = G
          /\ E' = E
       \/ /\ L.browser
          /\ L' = [L EXCEPT !.pc = "h_ret"]
          /\ G' = [G EXCEPT !.closeCalls = @ + 1, !.hlog = Append(@, "close")]
          /\ E' = [E EXCEPT !.pageClosed = TRUE]
       \/ /\ L.browser /\ MayInject
          /\ L' = [L EXCEPT !.pc = "h_ret"]
          /\ G' = [Injected EXCEPT !.closeCalls = @ + 1, !.hRaised = TRUE,
                                   !.hlog = Append(@, "close")]
          /\ E' = E
    /\ UNCHANGED <<flow, IS_CI, EMAIL, PASSWORD, M>>

\* return None, at the end of the handler
HReturn ==
    /\ L.pc = "h_ret"
    /\ L' = [L EXCEPT !.pc = "done", !.result = "None"]
    /\ UNCHANGED <<flow, IS_CI, EMAIL, PASSWORD, M, E, G>>

(* --------------------------- specification ----------------------------- *)

Next ==
    \/ MainCheck \/ MainBranch \/ MainSave
    \/ Launch \/ NewContext \/ TracingStart \/ NewPage \/ Goto
    \/ FillForm \/ VerifyForm
    \/ WaitCall \/ WaitCount \/ WaitSelector \/ WaitDelay
    \/ PollCheck \/ PollRead \/ AfterWait
    \/ GateRead \/ GateShot \/ GatePoll \/ GateClose
    \/ Click \/ ClickJs \/ NetIdle \/ UrlCheck
    \/ SCookies \/ SShot \/ SCard \/ STrace \/ SClose
    \/ FShot \/ FErr \/ FTrace \/ FDump \/ FClose
    \/ HShot \/ HDump \/ HTrace \/ HClose \/ HReturn
    \/ Attach \/ Solve \/ Navigate \/ ClosePage

Spec == Init /\ [][Next]_vars

(* ------------------------------ claims --------------------------------- *)

\* The deadline the specification gives the challenge wait: the base timeout
\* login() passes, doubled and capped in CI.
ClaimedDeadline ==
    IF IS_CI THEN Min(2 * LoginTimeoutArg, CiTimeoutCap) ELSE LoginTimeoutArg

\* The cleanup the specification gives the error handler: the screenshot when
\* the page existed and was open at the handler's check, the trace
\* finalization when a context exists, the release when a browser exists.
ExpectedCleanup ==
    (IF G.hShot THEN <<"screenshot">> ELSE <<>>)
        \o (IF L.context THEN <<"trace">> ELSE <<>>)
        \o (IF L.browser THEN <<"close">> ELSE <<>>)

\* C1: in every run in which the browser was launched, browser.close() has
\* been invoked by the time login() returns, on every exit path, also when a
\* step of the exception handler itself raises.
C1_CloseInvokedOnEveryExit ==
    (L.pc = "done" /\ L.browser) => G.closeCalls >= 1

\* C2: in every run in which the browser was launched, browser.close() is
\* invoked exactly once: never zero times and never twice, under faults at
\* any step, browser.close() included.
C2_ReleasedExactlyOnce ==
    (L.pc = "done" /\ L.browser) => G.closeCalls = 1

\* C3: when a step of login() has raised, the handler has attempted, in this
\* order, the error screenshot (unless the page is missing or closed), the
\* trace finalization (unless there is no context) and the release, each of
\* them also when an earlier one raised.
C3_HandlerAttemptsAllInOrder ==
    (L.pc = "done" /\ G.handler) => G.hlog = ExpectedCleanup

\* C4: when the token field was attached at the call and its value became
\* non-empty before the deadline, with the page open and on the login route
\* throughout and no step failing, the wait, once over, has returned exactly
\* that token.
C4_SolvedTokenIsReturned ==
    (/\ L.pc = "w_ret"
     /\ G.attachedAtCall
     /\ G.solvedAt >= 0 /\ G.solvedAt < ClaimedDeadline
     /\ ~E.pageClosed /\ E.onLogin /\ G.faults = 0)
        => (L.waitOutcome = "token" /\ L.waitValue = E.fieldValue)

\* C5: when the page left the login route during the wait, in whatever phase,
\* before a token was observed, the wait has returned no token, without
\* raising, at the next poll: at most one random delay after the navigation
\* (here in the runs where the token field was not yet attached when the wait
\* began, the page stays open and no step fails).
C5_NavigationEndsWaitWithNone ==
    (/\ L.pc = "w_ret"
     /\ G.navAt >= 0 /\ ~G.attachedAtCall
     /\ L.waitOutcome # "token"
     /\ ~E.pageClosed /\ G.faults = 0)
        => (L.waitOutcome = "none" /\ L.now - G.navAt <= MaxDelay)

\* C6: when the token field has never existed in the DOM (page open, no step
\* failing), the wait has returned no token, without raising, before the full
\* deadline has passed.
C6_AbsentFieldReturnsNoneEarly ==
    (/\ L.pc = "w_ret"
     /\ ~G.everAttached
     /\ ~E.pageClosed /\ G.faults = 0)
        => (L.waitOutcome = "none" /\ L.now < ClaimedDeadline)

\* C7: the polling phase lasts the claimed deadline: its one-second
\* iterations number min(2 * base, 180 s) in CI and the base timeout otherwise.
C7_PollingLastsTheDeadline ==
    L.pc \in {"w_check", "w_read"} => L.max_wait * MsPerSec = ClaimedDeadline

\* C8: the time between the call of the wait and its return or raise, the
\* selector wait, the random delay and every poll sleep counted, never exceeds
\* the deadline (here in the runs without navigation, page close or failing
\* step).
C8_NeverBlocksPastDeadline ==
    (/\ L.pc = "w_ret"
     /\ G.navAt < 0 /\ ~E.pageClosed /\ G.faults = 0)
        => L.now <= ClaimedDeadline

\* C9: outside CI, once the polling loop has run out with the token field
\* still empty, the run aborts: no click on the submit control is ever
\* attempted and the submission step is never reached; login() returns None
\* through the exception handler, whose error screenshot is attempted when the
\* page is open and whose session release, browser.close(), is invoked.
C9_InteractiveExpiryAborts ==
    (~IS_CI /\ G.expired) =>
        /\ G.clicks = 0
        /\ ~G.reachedSubmit
        /\ L.pc = "done" =>
              /\ L.result = "None"
              /\ G.handler
              /\ G.hShot => "screenshot" \in {G.hlog[k] : k \in DOMAIN G.hlog}
              /\ G.closeCalls >= 1

\* The part of C9 that holds in every run: the abort itself (no click, no
\* submission, None through the handler, the screenshot attempted), and the
\* release in the runs in which no step of the handler raises.
C9_AbortWithoutHandlerFault ==
    (~IS_CI /\ G.expired) =>
        /\ G.clicks = 0
        /\ ~G.reachedSubmit
        /\ L.pc = "done" =>
              /\ L.result = "None"
              /\ G.handler
              /\ G.hShot => "screenshot" \in {G.hlog[k] : k \in DOMAIN G.hlog}
              /\ ~G.hRaised => G.closeCalls = 1

\* A run outside CI whose challenge wait expired and that ended through the
\* handler with the screenshot taken and the session released.
C9_Witness ==
    /\ L.pc = "done" /\ ~IS_CI /\ G.expired
    /\ L.result = "None" /\ G.clicks = 0
    /\ G.closeCalls = 1 /\ "error.png" \in G.artifacts

\* C10: in CI, once the polling loop has run out with the token field still
\* empty, the wait returns without raising and login() goes on to the
\* submission step.
C10_CiExpiryIsSoft ==
    (IS_CI /\ G.expired) =>
        /\ L.waitOutcome # "raise"
        /\ L.pc \notin (WaitPcs \cup {"w_ret"}) => G.reachedSubmit

\* C11: once login() has returned after the URL check, it has returned the
\* cookies exactly when the URL it read after the click had no "/login"
\* and None when it did; and the cookies it returns as the success payload
\* are never an empty list (here in the runs in which no step raised).
C11_SuccessIffOffLoginWithCookies ==
    (L.pc = "done" /\ L.current_url # "unset" /\ ~G.handler /\ G.faults = 0) =>
        /\ (L.result = "cookies") <=> ~ContainsLogin(L.current_url)
        /\ ContainsLogin(L.current_url) => L.result = "None"
        /\ L.result = "cookies" => L.cookies # "empty"

\* C12: in CI, when the submit control was read as disabled at the initial
\* check and at every one of the polls that follow, login() returns None and
\* no click on the submit control, native or scripted, is ever attempted,
\* also when a step on that path raises.
C12_DisabledSubmitNeverClicked ==
    (IS_CI /\ G.gateExhausted) =>
        /\ G.clicks = 0
        /\ L.pc \notin {"click", "click_js"}
        /\ L.pc = "done" => L.result = "None"

\* C13: main() returns 0 exactly when login() classified the run as
\* authenticated (the URL it read after the click had no "/login"), and
\* then cookies.json has been written; it returns 1 exactly when the
\* configuration is missing or the run was not so classified, and then no
\* cookie file has been written (here in the lunes flow, in the runs in
\* which no step raised).
C13_ExitCodeFollowsClassification ==
    (M.pc = "exit" /\ flow = "lunes" /\ G.faults = 0 /\ ~G.handler) =>
        /\ (M.code = 0) <=>
              (~ConfigMissing /\ L.current_url # "unset"
                  /\ ~ContainsLogin(L.current_url))
        /\ (M.code = 1) <=>
              (ConfigMissing \/ L.current_url = "unset"
                  \/ ContainsLogin(L.current_url))
        /\ M.code = 0 => M.cookieFile = "written"
        /\ M.code = 1 => M.cookieFile = "none"

\* C14: when EMAIL or PASSWORD is empty at startup, login() is never started
\* (no browser launched, no navigation, nothing of the page touched, no
\* artifact and no cookie file written) and main(), once it has returned,
\* has returned a non-zero code.
C14_MissingConfigNeverStartsLogin ==
    (EMAIL = "" \/ PASSWORD = "") =>
        /\ M.pc \in {"start", "exit"}
        /\ L = InitL /\ E = InitE /\ G = InitG
        /\ M.cookieFile = "none"
        /\ M.pc = "exit" => M.code = 1

\* main() has returned 1 with the email set and the password empty, login()
\* never started.
C14_Witness ==
    /\ EMAIL # "" /\ PASSWORD = ""
    /\ M.pc = "exit" /\ M.code = 1
    /\ L.pc = "launch" /\ ~L.browser /\ G.artifacts = {}

\* C15: once login() has returned, in whatever way (success, classified
\* failure, disabled submit control, an exception at any step, the launch of
\* the browser and the creation of the context or the page included), at
\* least one diagnostic artifact has been written during the run: a
\* screenshot, a dump of the page's markup or a trace archive.
C15_EveryExitLeavesAnArtifact ==
    L.pc = "done" => G.artifacts # {}

\* C16: when a diagnostics capture step of the success or the failure branch
\* (the cookie read, the screenshot, the trace finalization) has raised, the
\* error does not change the outcome: login() returns what the URL check
\* decided (the cookies when the URL read had no "/login", None when it had),
\* and the cleanup that remained has run: the session has been released
\* (here in the runs in which no step of the exception handler raised).
C16_CaptureErrorKeepsOutcome ==
    (L.pc = "done" /\ G.captureRaised # "" /\ ~G.hRaised) =>
        /\ (L.result = "cookies") <=> ~ContainsLogin(L.current_url)
        /\ G.closeCalls >= 1

\* C17: in CI the server-card step is never executed: its screenshot is
\* never written and login() passes the step with nothing changed. Outside
\* CI the step, failing or not, changes nothing of login() but its position:
\* login() goes on to the rest of the success branch with the cookies it
\* read before the step, and the exception handler is not entered.
C17_CardStepLeavesOutcome ==
    /\ [](IS_CI => "server_detail.png" \notin G.artifacts)
    /\ [][(L.pc = "s_card" /\ L' # L) =>
            /\ L' = [L EXCEPT !.pc = AfterCard]
            /\ L'.cookies = L.cookies /\ L'.cookies # "unset"
            /\ G'.handler = G.handler /\ G'.faults = G.faults
            /\ IS_CI => G' = G]_vars

\* Outside CI login() has returned the cookies it read although the
\* server-card step failed: the success screenshot is there, the card's is
\* not.
C17_Witness ==
    /\ ~IS_CI /\ L.pc = "done" /\ L.result = "cookies" /\ L.cookies = "some"
    /\ "login_success.png" \in G.artifacts
    /\ "server_detail.png" \notin G.artifacts

\* C18: on a classified failure whose probe of the error selectors did not
\* raise, the reason reported is the text of the first selector, in list
\* order, whose first match has text that is not blank: a match with blank
\* text is passed over; when no selector has such text the reason is
\* unclassified (here in the runs in which no step raised).
C18_ReasonIsFirstNonEmptyText ==
    (L.error_msg[1] \notin {"unset", "raised"} /\ G.faults = 0) =>
        L.error_msg = IF G.firstText = 0 THEN <<"unclassified", 0>>
                      ELSE <<"text", G.firstText>>

\* The tag under which the trace of a finished run belongs: success_ when
\* login() returned the cookies, failed_ when it returned None from the
\* failure branch, error_ when it returned None from the exception handler.
OutcomeTag ==
    IF L.result = "cookies" THEN "success"
    ELSE IF G.handler THEN "error" ELSE "failed"

\* C19: in the lunes flow the trace is being recorded when the first
\* navigation starts, and once login() has returned in a run in which the
\* context was created, the trace has been finalized exactly once, under
\* the tag of the run's outcome (here in the runs in which the recording was
\* started and the page created).
C19_TraceFinalizedOnceUnderOutcome ==
    flow = "lunes" =>
        /\ L.pc = "goto" => L.traceActive
        /\ (L.pc = "done" /\ L.context /\ L.page) => G.traceStops = <<OutcomeTag>>

SuccessPcs == {"s_cookies", "s_shot", "s_card", "s_trace", "s_close"}

FailurePcs == {"f_shot", "f_err", "f_trace", "f_dump", "f_close"}

\* C20: when the wait for network idleness after the click has timed out,
\* the run is not aborted: the step that follows is the URL check, reached
\* without the exception handler, and the run is classified as it always
\* is: the success branch is entered exactly on a URL without "/login",
\* the failure branch exactly on a URL with it.
C20_IdleTimeoutIsNotFatal ==
    /\ [][(L.pc = "netidle" /\ ~G.idleTimedOut /\ G'.idleTimedOut) =>
            (L'.pc = "urlcheck" /\ ~G'.handler /\ E' = E)]_vars
    /\ [](G.idleTimedOut =>
            /\ L.current_url = "unset" => (L.pc = "urlcheck" /\ ~G.handler)
            /\ L.pc \in SuccessPcs => ~ContainsLogin(L.current_url)
            /\ L.pc \in FailurePcs => ContainsLogin(L.current_url))

\* The wait for network idleness has timed out, the URL check has been made
\* all the same and login() stands at the first step of the branch the
\* check chose.
C20_Witness ==
    /\ G.idleTimedOut /\ L.pc \in {"s_cookies", "f_shot"}
    /\ L.current_url # "unset" /\ ~G.handler

\* C21: when the page was closed while wait_for_turnstile_token was running,
\* the wait has returned no token without raising, and login(), once it has
\* returned, has returned None with the session released (here in the runs
\* in which no exception was injected: the closed page is the only failure).
C21_ClosedPageEndsWaitQuietly ==
    (G.closedInWait /\ G.faults = 0) =>
        /\ L.pc = "w_ret" => L.waitOutcome = "none"
        /\ L.pc = "done" => (L.result = "None" /\ G.closeCalls >= 1)

\* C22: in the podl flow, when the token field was not in the DOM at the call
\* of the wait and was attached before the grace window of the selector wait
\* had passed, the wait has not returned as for an absent challenge: by the
\* time it returns it has entered the polling loop (here with the page open
\* and on the login route throughout and no step failing).
C22_LateFieldIsPolled ==
    (/\ flow = "podl" /\ L.pc = "w_ret"
     /\ ~G.attachedAtCall /\ G.attachedInGrace
     /\ G.navAt < 0 /\ E.onLogin /\ ~E.pageClosed /\ G.faults = 0)
        => L.max_wait > 0

\* C23: in the podl flow, whenever the submit control carries a disabled
\* attribute at the gate, whatever its value, the empty string of a bare
\* boolean attribute included, the gate takes it as disabled: in CI login()
\* enters the bounded wait, and it goes on from the gate to the click only
\* after reading the attribute as absent (here in the runs in which no step
\* raised and the page stayed open, the wait not having run out).
C23_AnyDisabledAttributeGates ==
    (/\ flow = "podl" /\ IS_CI /\ L.pc = "click"
     /\ G.faults = 0 /\ ~E.pageClosed /\ ~G.gateExhausted)
        => L.is_disabled = "absent"

\* C24: after the form-fill step, the direct fill and, when it ran, the
\* keystroke fallback, every credential field that is not empty holds its
\* credential exactly once: a field that was already filled when the
\* fallback ran has not had the credential typed onto its value a second
\* time.
C24_FieldsHoldCredentialOnce ==
    L.pc = "wait" => (L.emailVal <= 1 /\ L.passVal <= 1)

====
